---------------------------- MODULE Spec2Model ----------------------------
(***************************************************************************)
(* The xrandr block of i3status-rust (src/blocks/xrandr.rs): the monitor   *)
(* list parsed from the output of the xrandr utility, the selected index,  *)
(* the brightness steps and the rendered text, driven by refresh ticks     *)
(* (Block::update) and pointer events (Block::click).                      *)
(*                                                                         *)
(* A text is a sequence of one-character strings, so that the splitting,   *)
(* trimming and matching of the code are computed and not assumed.         *)
(***************************************************************************)
EXTENDS Integers, Sequences, FiniteSets, TLC

(***************************************************************************)
(* Bounds of the model.                                                    *)
(***************************************************************************)
\* current_idx grows without limit when a release build takes primary
\* clicks on an empty list; the model stops such clicks at MaxIdx.
MaxIdx == 3

(***************************************************************************)
(* Characters and strings.                                                 *)
(***************************************************************************)
NL == "\n"
Whitespace == {" ", "\t", "\n", "\r"}
Digits == {"0", "1", "2", "3", "4", "5", "6", "7", "8", "9"}

DigitVal(c) ==
    CASE c = "0" -> 0 [] c = "1" -> 1 [] c = "2" -> 2 [] c = "3" -> 3
      [] c = "4" -> 4 [] c = "5" -> 5 [] c = "6" -> 6 [] c = "7" -> 7
      [] c = "8" -> 8 [] c = "9" -> 9

\* String::from / to_string of a character sequence: the string it spells.
RECURSIVE Str(_)
Str(cs) == IF cs = <<>> THEN "" ELSE Head(cs) \o Str(Tail(cs))

\* Index of the first element of s that is in set cset, 0 when there is none.
RECURSIVE FindFrom(_, _, _)
FindFrom(s, cset, i) ==
    IF i > Len(s) THEN 0
    ELSE IF s[i] \in cset THEN i
    ELSE FindFrom(s, cset, i + 1)

Find(s, cset) == FindFrom(s, cset, 1)

\* str::split(c): the pieces between the occurrences of c, empty ones kept.
RECURSIVE Split(_, _)
Split(s, c) ==
    LET i == Find(s, {c})
    IN  IF i = 0 THEN <<s>>
        ELSE <<SubSeq(s, 1, i - 1)>> \o Split(SubSeq(s, i + 1, Len(s)), c)

\* str::split_whitespace(): the maximal runs of non-whitespace characters.
RECURSIVE SplitWhitespace(_)
SplitWhitespace(s) ==
    IF s = <<>> THEN <<>>
    ELSE IF Head(s) \in Whitespace THEN SplitWhitespace(Tail(s))
    ELSE LET i == Find(s, Whitespace)
         IN  IF i = 0 THEN <<s>>
             ELSE <<SubSeq(s, 1, i - 1)>> \o SplitWhitespace(SubSeq(s, i, Len(s)))

\* str::trim(): leading and trailing whitespace removed.
RECURSIVE TrimStart(_)
TrimStart(s) ==
    IF s # <<>> /\ Head(s) \in Whitespace THEN TrimStart(Tail(s)) ELSE s

RECURSIVE TrimEnd(_)
TrimEnd(s) ==
    IF s # <<>> /\ s[Len(s)] \in Whitespace
    THEN TrimEnd(SubSeq(s, 1, Len(s) - 1)) ELSE s

Trim(s) == TrimEnd(TrimStart(s))

\* Whether pattern p occurs in s (an unanchored match of a literal pattern).
Contains(s, p) ==
    \E i \in 1..(Len(s) - Len(p) + 1) : SubSeq(s, i, i + Len(p) - 1) = p

\* slice::chunks_exact(2): consecutive non-overlapping pairs, an odd last
\* element left out.
RECURSIVE ChunksExact2(_)
ChunksExact2(s) ==
    IF Len(s) < 2 THEN <<>>
    ELSE <<SubSeq(s, 1, 2)>> \o ChunksExact2(SubSeq(s, 3, Len(s)))

(***************************************************************************)
(* Numbers: f32::from_str, the f32 product with 100.0, floor and `as u32`. *)
(***************************************************************************)
Pow2(n) == 2 ^ n

\* The decimal numeral cs (digits only) as [num, den]: its digits read as an
\* integer, and 10 to the number of digits.
RECURSIVE Numeral(_, _)
Numeral(cs, acc) ==
    IF cs = <<>> THEN acc
    ELSE Numeral(Tail(cs), [num |-> acc.num * 10 + DigitVal(Head(cs)),
                            den |-> acc.den * 10])

\* f32::from_str on the decimal forms  [+-] digits [. digits]  with at least
\* one digit: [ok, neg, num, den], the value being num / den before it is
\* rounded to an f32.  Every other text is a parse error here; the forms of
\* from_str that this leaves out (exponents, "inf", "nan") are not among the
\* texts the model feeds it.
FromStr(cs) ==
    LET signed == cs # <<>> /\ Head(cs) \in {"+", "-"}
        neg    == cs # <<>> /\ Head(cs) = "-"
        body   == IF signed THEN Tail(cs) ELSE cs
        dot    == Find(body, {"."})
        ip     == IF dot = 0 THEN body ELSE SubSeq(body, 1, dot - 1)
        fp     == IF dot = 0 THEN <<>> ELSE SubSeq(body, dot + 1, Len(body))
        wellformed ==
            /\ \A i \in 1..Len(ip) : ip[i] \in Digits
            /\ \A i \in 1..Len(fp) : fp[i] \in Digits
            /\ Len(ip) + Len(fp) > 0
        n == Numeral(ip \o fp, [num |-> 0, den |-> 1])
    IN  IF wellformed
        THEN [ok |-> TRUE, neg |-> neg, num |-> n.num, den |-> Numeral(fp, [num |-> 0, den |-> 1]).den]
        ELSE [ok |-> FALSE, neg |-> FALSE, num |-> 0, den |-> 1]

\* Round to nearest, ties to even: quotient q with remainder r of a division
\* by d.
RoundTiesEven(q, r, d) ==
    IF 2 * r < d THEN q
    ELSE IF 2 * r > d THEN q + 1
    ELSE q + (q % 2)

\* The f32 nearest to num / den (0 < num / den < 2^24) as [m, k], the value
\* m / 2^k with a 24-bit significand 2^23 <= m <= 2^24: the quotient is
\* doubled until it has 24 bits, then rounded on the remainder.
RECURSIVE F32Scale(_, _, _, _)
F32Scale(q, r, d, k) ==
    IF q >= Pow2(23) THEN [m |-> RoundTiesEven(q, r, d), k |-> k]
    ELSE F32Scale(2 * q + (IF 2 * r >= d THEN 1 ELSE 0), (2 * r) % d, d, k + 1)

F32(num, den) == F32Scale(num \div den, num % den, den, 0)

\* The number of low bits to drop so that p has at most 24 bits.
RECURSIVE ExcessBits(_, _)
ExcessBits(p, s) ==
    IF p < Pow2(24) THEN s ELSE ExcessBits(p \div 2, s + 1)

\* floor(x * 100.0) for the f32 x = m / 2^k: the exact product m * 100 is
\* rounded to 24 bits (ties to even), which is the f32 product, then floored.
FloorTimes100(x) ==
    LET p  == x.m * 100
        s  == ExcessBits(p, 0)
        m2 == RoundTiesEven(p \div Pow2(s), p % Pow2(s), Pow2(s))
        e  == x.k - s
    IN  IF e <= 0 THEN m2 * Pow2(0 - e)
        ELSE IF e > 24 THEN 0
        ELSE m2 \div Pow2(e)

\* (from_str(..)? * 100.0).floor() as u32: the cast saturates, so a negative
\* product gives 0.
BrightnessOf(f) ==
    IF f.num = 0 \/ f.neg THEN 0
    ELSE FloorTimes100(F32(f.num, f.den))

(***************************************************************************)
(* The output of a run of the xrandr utility, as the block sees it:        *)
(* the command could not be executed, its stdout is not UTF-8, or its      *)
(* stdout is a text.                                                       *)
(***************************************************************************)
CmdFailed  == [status |-> "failed", stdout |-> <<>>]
CmdNotUtf8 == [status |-> "not_utf8", stdout |-> <<>>]
CmdText(t) == [status |-> "ok", stdout |-> t]

\* Result<Option<Vec<_>>>
Err       == [tag |-> "Err", val |-> <<>>]
OkNone    == [tag |-> "None", val |-> <<>>]
OkSome(v) == [tag |-> "Some", val |-> v]

\* Monitor::new
Monitor(n, b, r) == [name |-> Str(n), brightness |-> b, resolution |-> Str(r)]

(***************************************************************************)
(* Xrandr::get_active_monitors: the last whitespace-delimited token of     *)
(* every line of `xrandr --listactivemonitors` that has one.               *)
(***************************************************************************)
\* LastTokens taking the first token of a line instead of the last.
RECURSIVE FirstTokens(_)
FirstTokens(lines) ==
    IF lines = <<>> THEN <<>>
    ELSE LET toks == SplitWhitespace(Head(lines))
         IN  (IF toks = <<>> THEN <<>> ELSE <<toks[1]>>)
             \o FirstTokens(Tail(lines))

RECURSIVE LastTokens(_)
LastTokens(lines) ==
    IF lines = <<>> THEN <<>>
    ELSE LET toks == SplitWhitespace(Head(lines))
         IN  (IF toks = <<>> THEN <<>> ELSE <<toks[Len(toks)]>>)
             \o LastTokens(Tail(lines))

get_active_monitors(out) ==
    IF out.status # "ok" THEN Err
    ELSE LET active_monitors == LastTokens(Split(out.stdout, NL))
         IN  IF active_monitors # <<>> THEN OkSome(active_monitors) ELSE OkNone

(***************************************************************************)
(* Xrandr::get_monitor_metrics: the lines of `xrandr --verbose` that match *)
(* "<name> connected" for an active name, or "Brightness:", taken in pairs.*)
(* The names are used as regular expressions; the names of the texts below *)
(* have no metacharacter, so a pattern matches where it occurs literally.  *)
(***************************************************************************)
Connected     == <<" ", "c", "o", "n", "n", "e", "c", "t", "e", "d">>
BrightnessTag == <<"B", "r", "i", "g", "h", "t", "n", "e", "s", "s", ":">>

is_match(monitor_names, l) ==
    \/ \E i \in 1..Len(monitor_names) : Contains(l, monitor_names[i] \o Connected)
    \/ Contains(l, BrightnessTag)

\* The brightness of one pair: 0 when the header line has no token or the
\* brightness line has no ':'; [ok |-> FALSE] when the field after the first
\* ':' (up to the next one) does not parse.
PairBrightness(mi_line_args, b_line) ==
    LET fields == Split(b_line, ":")
    IN  IF mi_line_args = <<>> \/ Len(fields) < 2
        THEN [ok |-> TRUE, val |-> 0]
        ELSE LET f == FromStr(Trim(fields[2]))
             IN  IF f.ok THEN [ok |-> TRUE, val |-> BrightnessOf(f)]
                 ELSE [ok |-> FALSE, val |-> 0]

\* The geometry token of a header line: token 2, or token 3 when token 2 has
\* no '+'; <<>> (no record pushed) when that token is missing.
PairRecord(mi_line_args, brightness) ==
    LET display == IF mi_line_args = <<>> THEN <<>> ELSE Trim(mi_line_args[1])
    IN  IF Len(mi_line_args) < 3 THEN <<>>
        ELSE IF Find(mi_line_args[3], {"+"}) # 0
        THEN <<Monitor(display, brightness, Trim(Split(mi_line_args[3], "+")[1]))>>
        ELSE IF Len(mi_line_args) < 4 THEN <<>>
        ELSE <<Monitor(display, brightness, Trim(Split(mi_line_args[4], "+")[1]))>>

\* Extract with the records of the earlier pairs kept when a brightness does
\* not parse.
RECURSIVE ExtractKeepingPartial(_, _)
ExtractKeepingPartial(chunks, monitor_metrics) ==
    IF chunks = <<>> THEN OkSome(monitor_metrics)
    ELSE LET mi_line_args == SplitWhitespace(Head(chunks)[1])
             b == PairBrightness(mi_line_args, Head(chunks)[2])
         IN  IF ~b.ok THEN OkSome(monitor_metrics)
             ELSE ExtractKeepingPartial(Tail(chunks),
                      monitor_metrics \o PairRecord(mi_line_args, b.val))

\* The loop over chunks_exact(2): a brightness that does not parse ends the
\* whole extraction with an error.
RECURSIVE Extract(_, _)
Extract(chunks, monitor_metrics) ==
    IF chunks = <<>> THEN OkSome(monitor_metrics)
    ELSE LET mi_line_args == SplitWhitespace(Head(chunks)[1])
             b == PairBrightness(mi_line_args, Head(chunks)[2])
         IN  IF ~b.ok THEN Err
             ELSE Extract(Tail(chunks),
                          monitor_metrics \o PairRecord(mi_line_args, b.val))

\* filter(|l| regex_set.is_match(l))
RECURSIVE Matching(_, _)
Matching(monitor_names, lines) ==
    IF lines = <<>> THEN <<>>
    ELSE (IF is_match(monitor_names, Head(lines)) THEN <<Head(lines)>> ELSE <<>>)
         \o Matching(monitor_names, Tail(lines))

get_monitor_metrics(monitor_names, out) ==
    IF out.status # "ok" THEN Err
    ELSE LET lines == Split(out.stdout, NL)
             monitor_infos == Matching(monitor_names, lines)
             r == Extract(ChunksExact2(monitor_infos), <<>>)
         IN  IF r.tag = "Err" THEN Err
             ELSE IF r.val # <<>> THEN r ELSE OkNone

(***************************************************************************)
(* The texts the xrandr utility answers with.  A line is written as its    *)
(* words; Text puts a newline after every line.                            *)
(***************************************************************************)
RECURSIVE Words(_)
Words(ws) ==
    IF ws = <<>> THEN <<>>
    ELSE IF Len(ws) = 1 THEN ws[1]
    ELSE ws[1] \o <<" ">> \o Words(Tail(ws))

RECURSIVE Text(_)
Text(lines) ==
    IF lines = <<>> THEN <<>> ELSE Head(lines) \o <<NL>> \o Text(Tail(lines))

eDP1 == <<"e", "D", "P", "1">>
HDMI == <<"H", "D", "M", "I">>
DP1  == <<"D", "P", "1">>
connected == <<"c", "o", "n", "n", "e", "c", "t", "e", "d">>
primary   == <<"p", "r", "i", "m", "a", "r", "y">>
Geom0 == <<"8", "x", "6", "+", "0", "+", "0">>
Geom1 == <<"4", "x", "3", "+", "8", "+", "0">>
Geom2 == <<"2", "x", "1", "+", "9", "+", "0">>

\* "Monitors: <n>" and " <i>: +<name> <geometry>  <name>"
MonitorsLine(n) == Words(<<<<"M", "o", "n", "i", "t", "o", "r", "s", ":">>, <<n>>>>)
ActiveLine(i, name, geom) ==
    <<" ">> \o Words(<<<<i, ":">>, <<"+">> \o name, geom, <<>>, name>>)

ListNone  == <<" ", NL>>
ListTwo   == Text(<<MonitorsLine("2"), ActiveLine("0", eDP1, Geom0),
                    ActiveLine("1", HDMI, Geom1)>>)
ListThree == Text(<<MonitorsLine("3"), ActiveLine("0", eDP1, Geom0),
                    ActiveLine("1", HDMI, Geom1), ActiveLine("2", DP1, Geom2)>>)

\* "Screen 0: ...", "<name> connected [primary] <geometry> ...",
\* "\tIdentifier: 0x42" and "\tBrightness: <value>"
ScreenLine == Words(<<<<"S", "c", "r", "e", "e", "n">>, <<"0", ":">>>>)
IdentifierLine == <<"\t">> \o Words(<<<<"I", "d", ":">>, <<"0", "x", "4", "2">>>>)
HeaderLine(name, rest) == Words(<<name, connected>> \o rest)
BrightnessLine(value) == <<"\t">> \o Words(<<BrightnessTag, value>>)
Output(name, rest, value) ==
    <<HeaderLine(name, rest), IdentifierLine, BrightnessLine(value)>>

B003 == <<"0", ".", "0", "3">>
B050 == <<"0", ".", "5", "0">>
B10  == <<"1", ".", "0">>
B15  == <<"1", ".", "5">>
Bbad == <<"o", "f", "f">>

DiagNone  == Text(<<ScreenLine, HeaderLine(eDP1, <<>>), BrightnessLine(B050)>>)
DiagThree == Text(<<ScreenLine>> \o Output(eDP1, <<primary, Geom0>>, B050)
                                 \o Output(HDMI, <<Geom1>>, B10)
                                 \o Output(DP1, <<Geom2>>, B003))
DiagOver  == Text(<<ScreenLine>> \o Output(eDP1, <<primary, Geom0>>, B15))
DiagBad   == Text(<<ScreenLine>> \o Output(eDP1, <<primary, Geom0>>, B050)
                                 \o Output(HDMI, <<Geom1>>, Bbad))

ListOutputs ==
    <<CmdFailed, CmdNotUtf8, CmdText(ListNone), CmdText(ListTwo), CmdText(ListThree)>>

DiagOutputs ==
    <<CmdFailed, CmdNotUtf8, CmdText(DiagNone), CmdText(DiagThree), CmdText(DiagOver), CmdText(DiagBad)>>

\* What the two parsers make of every answer: the lister on ListOutputs[i],
\* and the extractor on DiagOutputs[j] with the names the lister found in
\* ListOutputs[i].  (f @@ <<>> is f as an explicit table, so that the parsing
\* is done once and not at every step.)
ActiveMonitorsOf ==
    [i \in 1..Len(ListOutputs) |-> get_active_monitors(ListOutputs[i])] @@ <<>>

MonitorMetricsOf ==
    [i \in 1..Len(ListOutputs), j \in 1..Len(DiagOutputs) |->
        IF ActiveMonitorsOf[i].tag = "Some"
        THEN get_monitor_metrics(ActiveMonitorsOf[i].val, DiagOutputs[j])
        ELSE Err] @@ <<>>

(***************************************************************************)
(* Configuration.                                                          *)
(***************************************************************************)
\* XrandrConfig::step_width values tried (the default is 5).
ConfigStepWidths == {0, 40, 75}

\* Config::icons, the theme's glyphs after the lookup with its default and
\* the trim: a theme that has a backlight glyph and no resolution glyph.
Theme == [backlight_full |-> "*", resolution |-> ""]

StepLimit == 50

\* Xrandr::new without its clamp.
ClampStepWidthMissing(configured) == configured

\* The clamp of Xrandr::new.
ClampStepWidth(configured) ==
    IF configured > StepLimit THEN StepLimit ELSE configured

MouseButtons == {"Left", "Right", "WheelUp", "WheelDown"}

\* Scrolling::to_logical_direction
to_logical_direction(scrolling, mb) ==
    CASE mb = "WheelUp"   -> IF scrolling = "Reverse" THEN "Up" ELSE "Down"
      [] mb = "WheelDown" -> IF scrolling = "Reverse" THEN "Down" ELSE "Up"
      [] OTHER -> "None"

(***************************************************************************)
(* State.                                                                  *)
(***************************************************************************)
VARIABLES
    monitors,        \* Xrandr::monitors
    current_idx,     \* Xrandr::current_idx
    text,            \* the text of the ButtonWidget Xrandr::text
    step_width,      \* Xrandr::step_width
    icons,           \* Xrandr::icons
    resolution,      \* Xrandr::resolution
    block_config,    \* the XrandrConfig the block was made from
    config,          \* the shared Config: [icons, scrolling]
    overflow_checks, \* whether the build panics on integer overflow
    ev,              \* the event handled last
    pre,             \* monitors, current_idx and text as that event found them
    spawned,         \* the xrandr commands that event spawned
    result,          \* how its handler ended: "ok", "err" or "panic"
    parse            \* a parser applied on its own: its input and its answer

block == <<monitors, current_idx, text, step_width, icons, resolution>>
build == <<block_config, config, overflow_checks>>
vars == <<block, build, ev, pre, spawned, result, parse>>

Snapshot == [monitors |-> monitors, current_idx |-> current_idx, text |-> text]

\* No parser applied on its own, and one that has its input and not yet its
\* answer.
Pending == [tag |-> "Pending", val |-> <<>>]
NoParse == [fn |-> "none", names |-> <<>>, input |-> <<>>, output |-> Pending]

NoEvent == [kind |-> "new", list |-> 0, diag |-> 0, matches |-> FALSE, button |-> "-"]
UpdateEvent(i, j) == [NoEvent EXCEPT !.kind = "update", !.list = i, !.diag = j]
ClickEvent(m, b) == [NoEvent EXCEPT !.kind = "click", !.matches = m, !.button = b]

\* ConfigBlock::new.  The widget starts with no text.
Constructed ==
    /\ block_config \in [step_width : ConfigStepWidths, icons : BOOLEAN,
                         resolution : BOOLEAN]
    /\ config \in [icons : {Theme}, scrolling : {"Reverse", "Natural"}]
    /\ overflow_checks \in BOOLEAN
    /\ step_width = ClampStepWidth(block_config.step_width)
    /\ current_idx = 0
    /\ icons = block_config.icons
    /\ resolution = block_config.resolution
    /\ monitors = <<>>
    /\ text = ""
    /\ ev = NoEvent
    /\ pre = Snapshot
    /\ spawned = <<>>
    /\ result = "ok"

Init == Constructed /\ parse = NoParse

(***************************************************************************)
(* Xrandr::display                                                         *)
(***************************************************************************)
\* The values map of display(): the strings the placeholders stand for.
Values(m, theme) ==
    [ph \in {"{display}", "{brightness}", "{brightness_icon}", "{resolution}",
             "{res_icon}"} |->
        CASE ph = "{display}" -> m.name
          [] ph = "{brightness}" -> ToString(m.brightness)
          [] ph = "{brightness_icon}" -> theme.backlight_full
          [] ph = "{resolution}" -> m.resolution
          [] ph = "{res_icon}" -> theme.resolution]

\* format_str choosing by show_icons first, so that icons hide the resolution.
format_strIconsFirst(show_resolution, show_icons) ==
    IF show_icons
    THEN <<"{display}", " ", "{brightness_icon}", " ", "{brightness}">>
    ELSE IF show_resolution
         THEN <<"{display}", ": ", "{brightness}", " [", "{resolution}", "]">>
         ELSE <<"{display}", ": ", "{brightness}">>

\* The format_str of display(), written as its placeholders and the literal
\* text between them:
\*   "{display} {brightness_icon} {brightness} {res_icon} {resolution}"
\*   "{display}: {brightness} [{resolution}]"
\*   "{display} {brightness_icon} {brightness}"
\*   "{display}: {brightness}"
format_str(show_resolution, show_icons) ==
    IF show_resolution
    THEN IF show_icons
         THEN <<"{display}", " ", "{brightness_icon}", " ", "{brightness}", " ",
                "{res_icon}", " ", "{resolution}">>
         ELSE <<"{display}", ": ", "{brightness}", " [", "{resolution}", "]">>
    ELSE IF show_icons
         THEN <<"{display}", " ", "{brightness_icon}", " ", "{brightness}">>
         ELSE <<"{display}", ": ", "{brightness}">>

\* FormatTemplate::render_static_str: every placeholder replaced by its
\* value, the literal text copied.
RECURSIVE render_static_str(_, _)
render_static_str(template, values) ==
    IF template = <<>> THEN ""
    ELSE (IF Head(template) \in DOMAIN values
          THEN values[Head(template)] ELSE Head(template))
         \o render_static_str(Tail(template), values)

\* The text display() sets for the record m.
Render(m, show_resolution, show_icons, theme) ==
    render_static_str(format_str(show_resolution, show_icons), Values(m, theme))

\* display blanking the text when there is no record to show.
displayClearing(ms, idx, old_text) ==
    IF idx < Len(ms)
    THEN Render(ms[idx + 1], resolution, icons, config.icons)
    ELSE ""

\* The text after display() on the list ms with the index idx: set when
\* ms.get(idx) is a record, kept otherwise.  (usize indices are 0-based.)
display(ms, idx, old_text) ==
    IF idx < Len(ms)
    THEN Render(ms[idx + 1], resolution, icons, config.icons)
    ELSE old_text

(***************************************************************************)
(* Block::update                                                           *)
(***************************************************************************)
\* UpdateBlock with the list cleared when a poll finds nothing.
UpdateBlockClearing(am, mm, s) ==
    IF am.tag = "Err" THEN [block |-> s, result |-> "err"]
    ELSE IF am.val = <<>> \/ (mm.tag # "Err" /\ mm.val = <<>>)
    THEN [block |-> [s EXCEPT !.monitors = <<>>], result |-> "ok"]
    ELSE IF mm.tag = "Err" THEN [block |-> s, result |-> "err"]
    ELSE [block |-> [monitors |-> mm.val,
                     current_idx |-> s.current_idx,
                     text |-> display(mm.val, s.current_idx, s.text)],
          result |-> "ok"]

\* UpdateBlock with the index taken back to 0 when the new list is too short
\* for it.
UpdateBlockRevalidating(am, mm, s) ==
    IF am.tag = "Err" THEN [block |-> s, result |-> "err"]
    ELSE IF am.tag = "None" THEN [block |-> s, result |-> "ok"]
    ELSE IF mm.tag = "Err" THEN [block |-> s, result |-> "err"]
    ELSE IF mm.tag = "None" THEN [block |-> s, result |-> "ok"]
    ELSE LET idx == IF s.current_idx < Len(mm.val) THEN s.current_idx ELSE 0
         IN  [block |-> [monitors |-> mm.val,
                         current_idx |-> idx,
                         text |-> display(mm.val, idx, s.text)],
              result |-> "ok"]

\* UpdateBlock replacing the list without rendering it.
UpdateBlockNotRendering(am, mm, s) ==
    IF am.tag = "Err" THEN [block |-> s, result |-> "err"]
    ELSE IF am.tag = "None" THEN [block |-> s, result |-> "ok"]
    ELSE IF mm.tag = "Err" THEN [block |-> s, result |-> "err"]
    ELSE IF mm.tag = "None" THEN [block |-> s, result |-> "ok"]
    ELSE [block |-> [monitors |-> mm.val,
                     current_idx |-> s.current_idx,
                     text |-> s.text],
          result |-> "ok"]

\* UpdateBlock keeping the brightness the block holds for a record that is
\* still at its place in the new list.
UpdateBlockKeepingLocal(am, mm, s) ==
    IF am.tag = "Err" THEN [block |-> s, result |-> "err"]
    ELSE IF am.tag = "None" THEN [block |-> s, result |-> "ok"]
    ELSE IF mm.tag = "Err" THEN [block |-> s, result |-> "err"]
    ELSE IF mm.tag = "None" THEN [block |-> s, result |-> "ok"]
    ELSE LET merged == [k \in 1..Len(mm.val) |->
                           IF k <= Len(s.monitors) /\ s.monitors[k].name = mm.val[k].name
                           THEN [mm.val[k] EXCEPT !.brightness = s.monitors[k].brightness]
                           ELSE mm.val[k]]
         IN  [block |-> [monitors |-> merged,
                         current_idx |-> s.current_idx,
                         text |-> display(merged, s.current_idx, s.text)],
              result |-> "ok"]

\* The body of update on the block s = [monitors, current_idx, text], given
\* what the lister (am) and the extractor (mm) return: the block after it and
\* the Result.  mm is read only when am holds names.
UpdateBlock(am, mm, s) ==
    IF am.tag = "Err" THEN [block |-> s, result |-> "err"]
    ELSE IF am.tag = "None" THEN [block |-> s, result |-> "ok"]
    ELSE IF mm.tag = "Err" THEN [block |-> s, result |-> "err"]
    ELSE IF mm.tag = "None" THEN [block |-> s, result |-> "ok"]
    ELSE [block |-> [monitors |-> mm.val,
                     current_idx |-> s.current_idx,
                     text |-> display(mm.val, s.current_idx, s.text)],
          result |-> "ok"]

update(i, j) ==
    LET r == UpdateBlock(ActiveMonitorsOf[i], MonitorMetricsOf[i, j], Snapshot)
    IN  /\ result # "panic"
        /\ ev' = UpdateEvent(i, j)
        /\ pre' = Snapshot
        /\ spawned' = <<>>
        /\ monitors' = r.block.monitors
        /\ current_idx' = r.block.current_idx
        /\ text' = r.block.text
        /\ result' = r.result
        /\ UNCHANGED <<step_width, icons, resolution, build, parse>>

\* The diagnostic query runs only when the lister found names (j = 0 when it
\* does not run).
Update ==
    \E i \in 1..Len(ListOutputs) :
        \E j \in (IF ActiveMonitorsOf[i].tag = "Some" THEN 1..Len(DiagOutputs) ELSE {0}) :
            update(i, j)

(***************************************************************************)
(* Monitor::set_brightness and Block::click                                *)
(***************************************************************************)
\* The command set_brightness spawns: xrandr --output <name> --brightness
\* <(brightness + step) / 100.0>, the value kept as the fraction num / den.
\* spawn_child_async is taken to start the command: set_brightness is reached
\* only after a refresh has run the same utility.
BrightnessCommand(m, step) ==
    [output |-> m.name, num |-> m.brightness + step, den |-> 100]

\* The record after set_brightness.  brightness is below 2^31 here, so the
\* casts to i32 and back to u32 keep the value whenever the sum is not
\* negative.
set_brightness(m, step) == [m EXCEPT !.brightness = m.brightness + step]

\* RotateIndex comparing against len instead of len - 1: it never wraps.
RotateIndexNeverWrapping(idx, len, checks) ==
    IF len = 0
    THEN IF checks THEN [panic |-> TRUE, idx |-> idx]
         ELSE [panic |-> FALSE, idx |-> idx + 1]
    ELSE IF idx < len THEN [panic |-> FALSE, idx |-> idx + 1]
    ELSE [panic |-> FALSE, idx |-> 0]

\* RotateIndex stepping past the last index of a list that has records.
RotateIndexStepping(idx, len, checks) ==
    IF len = 0
    THEN IF checks THEN [panic |-> TRUE, idx |-> idx]
         ELSE [panic |-> FALSE, idx |-> idx + 1]
    ELSE [panic |-> FALSE, idx |-> idx + 1]

\* MouseButton::Left: the index after the click, or a panic.  With an empty
\* list monitors.len() - 1 overflows: a build with overflow checks panics, a
\* build without them wraps it to usize::MAX, which every index is below.
RotateIndex(idx, len, checks) ==
    IF len = 0
    THEN IF checks THEN [panic |-> TRUE, idx |-> idx]
         ELSE [panic |-> FALSE, idx |-> idx + 1]
    ELSE IF idx < len - 1 THEN [panic |-> FALSE, idx |-> idx + 1]
    ELSE [panic |-> FALSE, idx |-> 0]

\* The guards with the step left out of the bound, and with the bound itself
\* refused.
MayStepUpIgnoringStep(brightness, step) == brightness <= 100
MayStepUpStrict(brightness, step) == brightness < 100 - step
MayStepDownStrict(brightness, step) == brightness > step

\* The guards of the two scroll directions.
MayStepUp(brightness, step) == brightness <= 100 - step
MayStepDown(brightness, step) == brightness >= step

\* The step a scroll in direction dir applies to the record m: 0 with no
\* command when the guard refuses it.
ScrollStep(dir, m) ==
    IF dir = "Up" /\ MayStepUp(m.brightness, step_width)
    THEN [go |-> TRUE, step |-> step_width]
    ELSE IF dir = "Down" /\ MayStepDown(m.brightness, step_width)
    THEN [go |-> TRUE, step |-> 0 - step_width]
    ELSE [go |-> FALSE, step |-> 0]

click_left ==
    LET r == RotateIndex(current_idx, Len(monitors), overflow_checks)
    IN  /\ spawned' = <<>>
        /\ IF r.panic
           THEN /\ result' = "panic"
                /\ UNCHANGED <<monitors, current_idx, text>>
           ELSE /\ result' = "ok"
                /\ current_idx' = r.idx
                /\ text' = display(monitors, r.idx, text)
                /\ UNCHANGED monitors

click_scroll(dir) ==
    LET present == current_idx < Len(monitors)
        s == IF present /\ dir # "None"
             THEN ScrollStep(dir, monitors[current_idx + 1])
             ELSE [go |-> FALSE, step |-> 0]
        ms == IF s.go
              THEN [monitors EXCEPT ![current_idx + 1] = set_brightness(@, s.step)]
              ELSE monitors
    IN  /\ spawned' = IF s.go
                      THEN <<BrightnessCommand(monitors[current_idx + 1], s.step)>>
                      ELSE <<>>
        /\ monitors' = ms
        /\ text' = display(ms, current_idx, text)
        /\ result' = "ok"
        /\ UNCHANGED current_idx

\* click without the test of the event's target.
clickAnyWidget(matches, button) ==
    /\ result # "panic"
    /\ ev' = ClickEvent(matches, button)
    /\ pre' = Snapshot
    /\ IF button = "Left"
       THEN click_left
       ELSE click_scroll(to_logical_direction(config.scrolling, button))
    /\ UNCHANGED <<step_width, icons, resolution, build, parse>>

\* Block::click for an event whose matches_id(self.id) is matches.
click(matches, button) ==
    /\ result # "panic"
    /\ ev' = ClickEvent(matches, button)
    /\ pre' = Snapshot
    /\ IF ~matches
       THEN /\ spawned' = <<>>
            /\ result' = "ok"
            /\ UNCHANGED <<monitors, current_idx, text>>
       ELSE IF button = "Left"
       THEN click_left
       ELSE click_scroll(to_logical_direction(config.scrolling, button))
    /\ UNCHANGED <<step_width, icons, resolution, build, parse>>

\* current_idx is bounded only by the list's length; the clicks that raise it
\* past any list (an empty list, no overflow checks) stop at MaxIdx.
Click ==
    \E matches \in BOOLEAN, button \in MouseButtons :
        /\ (matches /\ button = "Left" /\ monitors = <<>> /\ ~overflow_checks)
               => current_idx < MaxIdx
        /\ click(matches, button)

Next == Update \/ Click

Spec == Init /\ [][Next]_vars

(***************************************************************************)
(* The two parsers on their own, each applied once to an input drawn at    *)
(* the start: the lister to every text of up to MaxTextLen characters of   *)
(* ListerAlphabet, the extractor to the names of ExtractorNames and every  *)
(* text of ExtractorTexts.  The block is a constructed one and stays as it *)
(* is.                                                                     *)
(***************************************************************************)
MaxTextLen == 6

ListerAlphabet == {"a", "b", " ", NL}

ListerTexts == UNION {[1..n -> ListerAlphabet] : n \in 0..MaxTextLen}

\* The diagnostic texts: a screen line, then up to MaxOutputs of the outputs
\* eDP1, HDMI and DP1 in that order, each with a header line, an identifier
\* line and a brightness line.  A header goes on after "connected" with a
\* geometry, with "primary" and a geometry, with "primary" alone, or, for an
\* output that is switched off, with "primary (normal".
MaxOutputs == 2

Normal == <<"(", "n", "o", "r", "m", "a", "l">>
B080 == <<"0", ".", "8", "0">>
B053 == <<"0", ".", "5", "3">>

OutputNames == <<eDP1, HDMI, DP1>>
HeaderRests == {<<Geom0>>, <<primary, Geom0>>, <<primary>>, <<primary, Normal>>}
BrightnessValues == {B080, B053, Bbad}

RECURSIVE OutputsFrom(_, _)
OutputsFrom(i, budget) ==
    IF i > Len(OutputNames) \/ budget = 0 THEN {<<>>}
    ELSE OutputsFrom(i + 1, budget)
         \cup {Output(OutputNames[i], r, v) \o rest :
                   r \in HeaderRests, v \in BrightnessValues,
                   rest \in OutputsFrom(i + 1, budget - 1)}

ExtractorTexts == {Text(<<ScreenLine>> \o ls) : ls \in OutputsFrom(1, MaxOutputs)}

\* The names the lister hands over: the count of the "Monitors: <n>" line,
\* then the active outputs.
ExtractorNames ==
    {<<<<"1">>, eDP1>>, <<<<"1">>, DP1>>, <<<<"2">>, eDP1, HDMI>>, <<<<"2">>, HDMI, DP1>>}

InitParsers ==
    /\ Constructed
    /\ block_config = [step_width |-> 40, icons |-> FALSE, resolution |-> FALSE]
    /\ config.scrolling = "Reverse"
    /\ overflow_checks
    /\ parse \in [fn : {"get_active_monitors"}, names : {<<>>},
                  input : ListerTexts, output : {Pending}]
               \cup [fn : {"get_monitor_metrics"}, names : ExtractorNames,
                     input : ExtractorTexts, output : {Pending}]

apply_get_active_monitors ==
    /\ parse.fn = "get_active_monitors" /\ parse.output = Pending
    /\ parse' = [parse EXCEPT !.output = get_active_monitors(CmdText(parse.input))]
    /\ UNCHANGED <<block, build, ev, pre, spawned, result>>

apply_get_monitor_metrics ==
    /\ parse.fn = "get_monitor_metrics" /\ parse.output = Pending
    /\ parse' = [parse EXCEPT
                     !.output = get_monitor_metrics(parse.names, CmdText(parse.input))]
    /\ UNCHANGED <<block, build, ev, pre, spawned, result>>

NextParsers == apply_get_active_monitors \/ apply_get_monitor_metrics

SpecParsers == InitParsers /\ [][NextParsers]_vars

(***************************************************************************)
(* Vocabulary of the properties: the event handled last, and the block as  *)
(* that event found it (pre) and left it.                                  *)
(***************************************************************************)
TargetedClick == ev.kind = "click" /\ ev.matches
PrimaryClick == TargetedClick /\ ev.button = "Left"
ScrollUp == TargetedClick /\ to_logical_direction(config.scrolling, ev.button) = "Up"
ScrollDown == TargetedClick /\ to_logical_direction(config.scrolling, ev.button) = "Down"
RefreshTick == ev.kind = "update"

PreLen == Len(pre.monitors)
PreInRange == pre.current_idx < PreLen
PreSelected == pre.monitors[pre.current_idx + 1]
Selected == monitors[current_idx + 1]

BlockUnchanged ==
    /\ monitors = pre.monitors
    /\ current_idx = pre.current_idx
    /\ text = pre.text

WithinPercent(ms) == \A k \in 1..Len(ms) : ms[k].brightness \in 0..100

\* Every record but the selected one is as before, and the selected one
\* keeps its name and resolution.
OnlySelectedBrightnessMayChange ==
    /\ Len(monitors) = PreLen
    /\ current_idx = pre.current_idx
    /\ \A k \in 1..PreLen : k # pre.current_idx + 1 => monitors[k] = pre.monitors[k]
    /\ Selected.name = PreSelected.name
    /\ Selected.resolution = PreSelected.resolution

\* C1: a targeted primary click on a non-empty list with the index in range
\* sets current_idx to (current_idx + 1) mod len(monitors): one more below
\* the last index, 0 at the last index.
C1_PrimaryClickAdvancesCircularly ==
    (PrimaryClick /\ PreLen > 0 /\ PreInRange) =>
        /\ result = "ok"
        /\ current_idx = (pre.current_idx + 1) % PreLen
        /\ pre.current_idx < PreLen - 1 => current_idx = pre.current_idx + 1
        /\ pre.current_idx = PreLen - 1 => current_idx = 0

\* The wrap of the specification's example: three monitors, index 2 to 0.
C1_Witness ==
    PrimaryClick /\ PreLen = 3 /\ pre.current_idx = 2 /\ current_idx = 0

\* C2: a targeted primary click on an empty list is skipped: the handler
\* ends without a fault and current_idx is what it was.
C2_PrimaryClickOnEmptyListSkipped ==
    (PrimaryClick /\ PreLen = 0) =>
        result = "ok" /\ current_idx = pre.current_idx

\* C3: a targeted click on a list whose brightnesses are all within [0, 100]
\* leaves them all within [0, 100] (so does every sequence of such clicks).
C3_ClicksKeepBrightnessInRange ==
    (TargetedClick /\ WithinPercent(pre.monitors)) => WithinPercent(monitors)

\* A scroll that took a brightness to a bound of the range, by a step that is
\* not 0.
C3_Witness ==
    /\ TargetedClick /\ WithinPercent(pre.monitors) /\ PreInRange
    /\ spawned # <<>> /\ step_width > 0
    /\ Selected.brightness \in {0, 100}
    /\ Selected.brightness # PreSelected.brightness

\* C4: every brightness command spawned asks for a value within [0.0, 1.0],
\* whatever brightness the refresh read.
C4_SpawnedValueIsAFraction ==
    \A k \in 1..Len(spawned) :
        0 <= spawned[k].num /\ spawned[k].num <= spawned[k].den

\* C5: a targeted scroll-up on an in-range selected monitor with brightness
\* b spawns exactly one command, for that monitor, and sets its brightness to
\* b + step_width when b <= 100 - step_width; spawns none and keeps the
\* brightness otherwise; no other record and not current_idx changes.
C5_ScrollUp ==
    (ScrollUp /\ PreInRange) =>
        /\ result = "ok"
        /\ OnlySelectedBrightnessMayChange
        /\ IF PreSelected.brightness <= 100 - step_width
           THEN /\ Len(spawned) = 1
                /\ spawned[1].output = PreSelected.name
                /\ spawned[1].num = PreSelected.brightness + step_width
                /\ Selected.brightness = PreSelected.brightness + step_width
           ELSE /\ spawned = <<>>
                /\ Selected.brightness = PreSelected.brightness

\* A scroll-up that went through on a list of several monitors, and one that
\* was refused, are both reachable; the witness is the first.
C5_Witness ==
    /\ ScrollUp /\ PreInRange /\ PreLen > 1 /\ step_width > 0
    /\ Len(spawned) = 1
    /\ Selected.brightness = PreSelected.brightness + step_width

\* C6: a targeted scroll-down on an in-range selected monitor with
\* brightness b spawns exactly one command and sets its brightness to
\* b - step_width, never negative, when b >= step_width; spawns none and
\* keeps the brightness when b < step_width.
C6_ScrollDown ==
    (ScrollDown /\ PreInRange) =>
        /\ result = "ok"
        /\ IF PreSelected.brightness >= step_width
           THEN /\ Len(spawned) = 1
                /\ spawned[1].output = PreSelected.name
                /\ spawned[1].num = PreSelected.brightness - step_width
                /\ Selected.brightness = PreSelected.brightness - step_width
                /\ Selected.brightness >= 0
           ELSE /\ spawned = <<>>
                /\ Selected.brightness = PreSelected.brightness

\* The refused case of the specification's example: a brightness below the
\* step (3 against a step that is larger) is left alone.
C6_Witness ==
    /\ ScrollDown /\ PreInRange /\ PreSelected.brightness = 3
    /\ step_width > 3 /\ spawned = <<>> /\ Selected.brightness = 3

\* C7: step_width is min(c, 50) for the configured c, at construction and in
\* every state after it.
C7_StepWidthClamped ==
    step_width = IF block_config.step_width < 50 THEN block_config.step_width ELSE 50

\* A block configured with 75 that has since refreshed and stepped a
\* brightness.
C7_Witness ==
    /\ block_config.step_width = 75 /\ step_width = 50
    /\ TargetedClick /\ spawned # <<>>

(***************************************************************************)
(* Refresh ticks: what the two queries of the tick answered.               *)
(***************************************************************************)
TickList == ListOutputs[ev.list]
TickDiag == DiagOutputs[ev.diag]
TickNames == ActiveMonitorsOf[ev.list]
TickMetrics == MonitorMetricsOf[ev.list, ev.diag]
DiagnosticsRan == ev.diag # 0

\* The brightness value of the pair c does not parse as a number.
Unparsable(c) ==
    /\ SplitWhitespace(c[1]) # <<>>
    /\ Len(Split(c[2], ":")) >= 2
    /\ ~FromStr(Trim(Split(c[2], ":")[2])).ok

\* The (header line, brightness line) pairs the extractor works on, for
\* every pair of answers, computed once.
PairsOf ==
    [i \in 1..Len(ListOutputs), j \in 1..Len(DiagOutputs) |->
        ChunksExact2(Matching(ActiveMonitorsOf[i].val,
                              Split(DiagOutputs[j].stdout, NL)))] @@ <<>>

TickPairs == PairsOf[ev.list, ev.diag]

ListerYieldsNoNames == TickNames.tag # "Err" /\ TickNames.val = <<>>
ExtractorYieldsNoRecords ==
    DiagnosticsRan /\ TickMetrics.tag # "Err" /\ TickMetrics.val = <<>>

FatalToCycle ==
    \/ TickList.status # "ok"
    \/ /\ DiagnosticsRan
       /\ \/ TickDiag.status # "ok"
          \/ \E k \in 1..Len(TickPairs) : Unparsable(TickPairs[k])

\* C8: a refresh tick on which the lister yields no names, or the extractor
\* no records, is not an error and leaves monitors, current_idx and the
\* rendered text as they were.
C8_DegeneratePollChangesNothing ==
    (RefreshTick /\ (ListerYieldsNoNames \/ ExtractorYieldsNoRecords)) =>
        result = "ok" /\ BlockUnchanged

\* An extraction without records on a block that shows a monitor.
C8_Witness ==
    /\ RefreshTick /\ ExtractorYieldsNoRecords
    /\ pre.monitors # <<>> /\ pre.text # ""
    /\ result = "ok" /\ BlockUnchanged

\* C9: a refresh tick that hits a fatal-to-cycle error (a query that cannot
\* run, output that is not text, a brightness that is not a number) returns
\* an error and applies no partial list: monitors, current_idx and the
\* rendered text are unchanged, also when earlier pairs were well-formed.
C9_FatalTickChangesNothing ==
    (RefreshTick /\ FatalToCycle) => result = "err" /\ BlockUnchanged

\* The second pair's brightness does not parse, the first pair alone gives a
\* record, and the block held another list than that record.
C9_Witness ==
    /\ RefreshTick /\ DiagnosticsRan /\ TickDiag.status = "ok"
    /\ Len(TickPairs) >= 2 /\ Unparsable(TickPairs[2])
    /\ ~Unparsable(TickPairs[1])
    /\ PairRecord(SplitWhitespace(TickPairs[1][1]), 0) # <<>>
    /\ Len(pre.monitors) > 1
    /\ result = "err" /\ BlockUnchanged

\* C10: a refresh tick never changes current_idx, whatever its outcome and
\* whatever the length or order of the new list.
C10_RefreshKeepsCurrentIdx ==
    RefreshTick => current_idx = pre.current_idx

\* A refresh that replaced the list by one too short for the index.
C10_Witness ==
    /\ RefreshTick /\ PreInRange /\ pre.current_idx > 0
    /\ Len(monitors) < PreLen /\ current_idx >= Len(monitors)
    /\ current_idx = pre.current_idx

\* C11: after a targeted primary click on a non-empty list the index is in
\* range, current_idx < len(monitors), whatever it was before, also when a
\* refresh that shortened the list had left it beyond the end.
C11_PrimaryClickRestoresRange ==
    (PrimaryClick /\ PreLen > 0) =>
        result = "ok" /\ current_idx < Len(monitors)

\* A primary click that found the index beyond the end of a list with
\* records.
C11_Witness ==
    /\ PrimaryClick /\ PreLen > 0 /\ pre.current_idx >= PreLen
    /\ result = "ok" /\ current_idx = 0 /\ Len(monitors) = PreLen

\* C12: an input event that does not target this widget is ignored, for
\* every button: monitors, current_idx and the rendered text stay as they
\* were and no brightness command is spawned.
C12_UntargetedEventIgnored ==
    (ev.kind = "click" /\ ~ev.matches) =>
        result = "ok" /\ BlockUnchanged /\ spawned = <<>>

\* An untargeted scroll over a block whose selected monitor a targeted one
\* would have stepped, and an untargeted primary click over several monitors.
C12_Witness ==
    /\ ev.kind = "click" /\ ~ev.matches /\ PreInRange
    /\ \/ /\ to_logical_direction(config.scrolling, ev.button) = "Up"
          /\ step_width > 0 /\ PreSelected.brightness + step_width <= 100
       \/ ev.button = "Left" /\ PreLen > 1
    /\ BlockUnchanged /\ spawned = <<>>

\* The handlers that reach the render step: a targeted click that does not
\* panic, and a refresh whose extraction yields records.
RefreshYieldsRecords ==
    /\ RefreshTick /\ DiagnosticsRan /\ ~FatalToCycle
    /\ TickMetrics.val # <<>>
RenderStepRan == (TargetedClick /\ result # "panic") \/ RefreshYieldsRecords

\* C13: a render step that finds no record at monitors[current_idx] renders
\* nothing: it returns without error and the displayed text stays as it was.
C13_RenderWithoutRecordKeepsText ==
    (RenderStepRan /\ ~(current_idx < Len(monitors))) =>
        result = "ok" /\ text = pre.text

\* A refresh that replaced the list by one too short for the index, over a
\* text that showed a monitor.
C13_Witness ==
    /\ RefreshYieldsRecords /\ PreInRange
    /\ monitors # pre.monitors /\ current_idx >= Len(monitors)
    /\ pre.text # "" /\ text = pre.text /\ result = "ok"

\* The brightness values the diagnostic texts hold.
ParsedBrightnesses ==
    UNION {{MonitorMetricsOf[i, j].val[k].brightness :
               k \in 1..Len(MonitorMetricsOf[i, j].val)} :
           i \in {n \in 1..Len(ListOutputs) : ActiveMonitorsOf[n].tag = "Some"},
           j \in 1..Len(DiagOutputs)}

\* C14: a refresh whose extraction yields records makes monitors exactly the
\* extracted list: a brightness set locally by scrolling is replaced by the
\* one parsed from the diagnostic text.
C14_RefreshReplacesMonitors ==
    RefreshYieldsRecords =>
        result = "ok" /\ monitors = TickMetrics.val

\* The first record's brightness had been stepped away from the parsed one
\* and the refresh brought the parsed one back.
C14_Witness ==
    /\ RefreshYieldsRecords /\ PreLen > 0
    /\ pre.monitors[1].name = monitors[1].name
    /\ pre.monitors[1].brightness \notin ParsedBrightnesses
    /\ pre.monitors[1].brightness # monitors[1].brightness
    /\ monitors = TickMetrics.val

(***************************************************************************)
(* The parsers on their own: what a line and a token are, said without the *)
(* splitting the parsers do.                                               *)
(***************************************************************************)
ListerRan == parse.fn = "get_active_monitors" /\ parse.output # Pending

\* The lines of the text t: the stretches between its line breaks.
LineBreaks(t) == {k \in 1..Len(t) : t[k] = NL}
LineStarts(t) == {1} \cup {k + 1 : k \in LineBreaks(t)}
LineFrom(t, b) ==
    SubSeq(t, b, (CHOOSE e \in (LineBreaks(t) \cup {Len(t) + 1}) :
                      e >= b /\ \A k \in b..(e - 1) : t[k] # NL) - 1)

HasToken(l) == \E k \in 1..Len(l) : l[k] \notin Whitespace

\* The last token of a line that has one: the longest stretch without
\* whitespace that ends at the line's last character that is not whitespace.
LastToken(l) ==
    LET e == CHOOSE k \in 1..Len(l) :
                 l[k] \notin Whitespace /\ \A n \in (k + 1)..Len(l) : l[n] \in Whitespace
        b == CHOOSE k \in 1..e :
                 /\ \A n \in k..e : l[n] \notin Whitespace
                 /\ k = 1 \/ l[k - 1] \in Whitespace
    IN  SubSeq(l, b, e)

\* The starts of the lines of t that have a token, and the n-th of them.
TokenLineStarts(t) == {b \in LineStarts(t) : HasToken(LineFrom(t, b))}
NthStart(S, n) == CHOOSE b \in S : Cardinality({c \in S : c < b}) = n - 1

\* C15: for every text the lister yields "none" exactly when no line has a
\* whitespace-delimited token, and otherwise the last token of each line
\* that has one, in line order; it never yields a present but empty list.
C15_ListerYieldsLastTokens ==
    ListerRan =>
        LET t == parse.input
            S == TokenLineStarts(t)
        IN  /\ parse.output.tag \in {"None", "Some"}
            /\ parse.output.tag = "None" <=> S = {}
            /\ parse.output.tag = "Some" =>
                   /\ parse.output.val # <<>>
                   /\ Len(parse.output.val) = Cardinality(S)
                   /\ \A n \in 1..Cardinality(S) :
                          parse.output.val[n] = LastToken(LineFrom(t, NthStart(S, n)))

\* Two lines with an empty one between them, of which the first has two
\* tokens: two names, the first the line's second token.
C15_Witness ==
    /\ ListerRan
    /\ parse.input = <<"a", " ", "b", NL, NL, "a">>
    /\ parse.output = OkSome(<<<<"b">>, <<"a">>>>)

ExtractorRan == parse.fn = "get_monitor_metrics" /\ parse.output # Pending

\* The (header line, brightness line) pairs of the extraction: the lines the
\* filter keeps, two by two.
ParsePairs == ChunksExact2(Matching(parse.names, Split(parse.input, NL)))

\* The tokens of a pair's header line, counted from 0.
HeaderToken(c, n) == SplitWhitespace(c[1])[n + 1]
HasHeaderToken(c, n) == Len(SplitWhitespace(c[1])) > n
HasPlus(tok) == \E k \in 1..Len(tok) : tok[k] = "+"
BeforePlus(tok) ==
    SubSeq(tok, 1, (CHOOSE e \in 1..(Len(tok) + 1) :
                        /\ e = Len(tok) + 1 \/ tok[e] = "+"
                        /\ \A k \in 1..(e - 1) : tok[k] # "+") - 1)

\* The text after the first ':' of a pair's brightness line, and 100 times
\* the decimal number it is, rounded down.
AfterColon(c) ==
    SubSeq(c[2], (CHOOSE k \in 1..Len(c[2]) :
                      c[2][k] = ":" /\ \A n \in 1..(k - 1) : c[2][n] # ":") + 1,
           Len(c[2]))
Percent(c) ==
    LET f == FromStr(Trim(AfterColon(c)))
    IN  (100 * f.num) \div f.den

\* The pairs that give a record: those whose header has a token 2 with a
\* '+', or else a token 3.
GivesRecord(c) ==
    /\ HasHeaderToken(c, 2)
    /\ HasPlus(HeaderToken(c, 2)) \/ HasHeaderToken(c, 3)
RecordPairs == {k \in 1..Len(ParsePairs) : GivesRecord(ParsePairs[k])}
NthPair(S, n) == ParsePairs[CHOOSE k \in S : Cardinality({j \in S : j < k}) = n - 1]

\* C16: for every (header, brightness) pair of the filtered lines the
\* extractor's record has the header's token 0 as name, floor(100 * value)
\* as brightness, where value is the number after the first ':' of the
\* brightness line, and as resolution the text before the first '+' of the
\* header's token 2 when that holds a '+', of its token 3 otherwise; the
\* records come in the order of the pairs.
C16_RecordsFollowPairs ==
    (ExtractorRan /\ parse.output.tag # "Err") =>
        /\ Len(parse.output.val) = Cardinality(RecordPairs)
        /\ \A n \in 1..Len(parse.output.val) :
               LET c == NthPair(RecordPairs, n)
                   geometry == IF HasPlus(HeaderToken(c, 2))
                               THEN HeaderToken(c, 2) ELSE HeaderToken(c, 3)
               IN  /\ parse.output.val[n].name = Str(HeaderToken(c, 0))
                   /\ parse.output.val[n].brightness = Percent(c)
                   /\ parse.output.val[n].resolution = Str(BeforePlus(geometry))

\* The pairs whose header has a token with a '+' at position 2 or 3.
HasGeometry(c) ==
    \/ HasHeaderToken(c, 2) /\ HasPlus(HeaderToken(c, 2))
    \/ HasHeaderToken(c, 3) /\ HasPlus(HeaderToken(c, 3))
GeometryPairs == {k \in 1..Len(ParsePairs) : HasGeometry(ParsePairs[k])}

\* C17: a pair whose header line has no token with a '+' at position 2 or 3
\* gives no record, and the other pairs of the extraction still give
\* theirs: the records are those of the pairs with such a token, in order.
C17_NoGeometryNoRecord ==
    (ExtractorRan /\ parse.output.tag # "Err") =>
        /\ Len(parse.output.val) = Cardinality(GeometryPairs)
        /\ \A n \in 1..Len(parse.output.val) :
               parse.output.val[n].name = Str(HeaderToken(NthPair(GeometryPairs, n), 0))

\* C19: every record the extractor returns has the name of one of the
\* active names it was given, whatever the diagnostic text and the names.
C19_RecordsAreOfActiveNames ==
    ExtractorRan =>
        \A n \in 1..Len(parse.output.val) :
            \E i \in 1..Len(parse.names) :
                parse.output.val[n].name = Str(parse.names[i])

\* The last handler rendered a record.
Rendered == RenderStepRan /\ result = "ok" /\ current_idx < Len(monitors)

\* C18: with icons and resolution both off a rendering is exactly
\* "<name>: <brightness>"; each of the four combinations of the two toggles
\* has its own fixed template; and the toggles stay as the block was
\* configured.
C18_TemplatesByToggles ==
    /\ icons = block_config.icons
    /\ resolution = block_config.resolution
    /\ Rendered =>
           LET b == ToString(Selected.brightness)
           IN  /\ (~icons /\ ~resolution) =>
                      text = Selected.name \o ": " \o b
               /\ (icons /\ ~resolution) =>
                      text = Selected.name \o " " \o config.icons.backlight_full
                                 \o " " \o b
               /\ (~icons /\ resolution) =>
                      text = Selected.name \o ": " \o b
                                 \o " [" \o Selected.resolution \o "]"
               /\ (icons /\ resolution) =>
                      text = Selected.name \o " " \o config.icons.backlight_full
                                 \o " " \o b \o " " \o config.icons.resolution
                                 \o " " \o Selected.resolution

\* The second monitor at 60 percent with both toggles off.
C18_Witness ==
    /\ ~icons /\ ~resolution /\ Rendered
    /\ Selected.name = "HDMI" /\ Selected.brightness = 60
    /\ text = "HDMI: 60"

\* C20: in every reachable state in which current_idx is in range the text
\* shown is the rendering of monitors[current_idx]: no refresh and no click
\* leaves the display behind the record it selects.  (The template engine
\* does not fail.)
C20_TextShowsSelected ==
    current_idx < Len(monitors) =>
        text = Render(Selected, resolution, icons, config.icons)

\* A refresh put another brightness under an index that is not 0, and the
\* text followed.
C20_Witness ==
    /\ RefreshYieldsRecords /\ PreInRange /\ current_idx > 0
    /\ current_idx < Len(monitors)
    /\ Selected.name = PreSelected.name
    /\ Selected.brightness # PreSelected.brightness
    /\ text # pre.text
    /\ text = Render(Selected, resolution, icons, config.icons)

=============================================================================
